---- MODULE Spec2Model ----
(***************************************************************************)
(* Task-tracking REST API: users own tasks, every task operation is       *)
(* restricted to the task's owner.  The store (users, tasks) is the       *)
(* state; one action per HTTP endpoint runs the whole request: schema     *)
(* validation, the authMiddleware preHandler, the service method and the  *)
(* repository calls it makes, and the error handler that turns a thrown   *)
(* error into a response.                                                  *)
(***************************************************************************)
EXTENDS Integers, Sequences, FiniteSets, TLC

(***************************************************************************)
(* Bounds of the model.                                                    *)
(***************************************************************************)
MaxUsers == 2
MaxTasks == 2

(***************************************************************************)
(* Values.  A string that is used as an identifier is a record: fmt is    *)
(* the shape of the text and n the value it spells.                        *)
(*   "uuid"  8-4-4-4-12 hex, lower case      "UUID"  the same, upper case  *)
(*   "text"  any other non-empty text        "empty" the empty string      *)
(*   "undefined"  the header / parameter is not there                      *)
(***************************************************************************)
Uuid(n)   == [fmt |-> "uuid", n |-> n]
Upper(n)  == [fmt |-> "UUID", n |-> n]
Garbage   == [fmt |-> "text", n |-> 0]
Empty     == [fmt |-> "empty", n |-> 0]
Undefined == [fmt |-> "undefined", n |-> 0]

UserNums == 1 .. MaxUsers
TaskNums == 101 .. (100 + MaxTasks)

\* body fields are strings; ABSENT is a property the JSON body does not have,
\* NULL the database NULL of an optional column
ABSENT == "<absent>"
NULL   == "<null>"
LongTitle == "<201 chars>"
LongDescription == "<2001 chars>"

StrLen(s) ==
  CASE s = "" -> 0
    [] s = LongTitle -> 201
    [] s = LongDescription -> 2001
    [] OTHER -> 1

TaskStatus == {"TODO", "IN_PROGRESS", "DONE", "ARCHIVED"}

UserIds == {Uuid(n) : n \in UserNums}
TaskIds == {Uuid(n) : n \in TaskNums}

(***************************************************************************)
(* The store: the users and tasks tables, keyed by primary key.  The ids  *)
(* the store has generated so far are remembered, since a generated uuid  *)
(* is never generated again.  reqs holds the requests that are being       *)
(* served concurrently, each with the locals of its handler.               *)
(***************************************************************************)
VARIABLES users, tasks, usedTasks, usedUsers, last, reqs

vars == <<users, tasks, usedTasks, usedUsers, last, reqs>>

(***************************************************************************)
(* Errors and the responses the error handler makes of them.               *)
(***************************************************************************)
AppError(statusCode, code) ==
  [kind |-> "AppError", statusCode |-> statusCode, code |-> code]

UnauthorizedError == AppError(401, "UNAUTHORIZED")
ForbiddenError    == AppError(403, "FORBIDDEN")
NotFoundError     == AppError(404, "NOT_FOUND")
ConflictError     == AppError(409, "CONFLICT")

\* the error the framework raises when a request fails its route schema
\* (it carries a `validation` property)
SchemaValidationError ==
  [kind |-> "validation", statusCode |-> 400, code |-> "FST_ERR_VALIDATION"]

\* an error thrown by the store client: no statusCode (0 stands for undefined)
PrismaError(code) == [kind |-> "store", statusCode |-> 0, code |-> code]

\* a response: HTTP status, error code ("" on success), and the task or user
\* rows of `data` as a sequence (empty when the response carries none)
Reply(statusCode, data) == [code |-> statusCode, err |-> "", data |-> data]
ErrorReply(statusCode, code) == [code |-> statusCode, err |-> code, data |-> <<>>]
NoReply == [code |-> 0, err |-> "", data |-> <<>>]

\* variant: every error that is not an AppError or a validation error is
\* answered 500
errorHandler_always500(error) ==
  IF error.kind = "AppError"
    THEN ErrorReply(error.statusCode, error.code)
  ELSE IF error.kind = "validation"
    THEN ErrorReply(400, "VALIDATION_ERROR")
  ELSE ErrorReply(500, "INTERNAL_ERROR")

errorHandler(error) ==
  IF error.kind = "AppError"
    THEN ErrorReply(error.statusCode, error.code)
  ELSE IF error.kind = "validation"
    THEN ErrorReply(400, "VALIDATION_ERROR")
  ELSE ErrorReply(IF error.statusCode # 0 THEN error.statusCode ELSE 500,
                  "INTERNAL_ERROR")

\* config: NODE_ENV is read once, when the process starts (ABSENT: not set)
NodeEnvs == {"production", "development", "test", ABSENT}

config_isProd(nodeEnv) == nodeEnv = "production"
config_isDev(nodeEnv)  == nodeEnv = "development"

\* variant: the message of a generic error is sent in every environment
errorHandler_message_unmasked(error, nodeEnv) ==
  IF error.kind = "AppError" THEN error.message
  ELSE IF error.kind = "validation" THEN "Validation failed"
  ELSE IF error.message # "" THEN error.message ELSE "Internal server error"

\* the message of the response errorHandler sends; an error without a
\* message has the message ""
errorHandler_message(error, nodeEnv) ==
  IF error.kind = "AppError" THEN error.message
  ELSE IF error.kind = "validation" THEN "Validation failed"
  ELSE IF config_isProd(nodeEnv) THEN "Internal server error"
  ELSE IF error.message # "" THEN error.message ELSE "Internal server error"

\* variant: the stack is left out in production only
errorHandler_stack_unlessProd(error, nodeEnv) ==
  IF error.kind = "validation" THEN ABSENT
  ELSE IF ~config_isProd(nodeEnv) THEN error.stack
  ELSE ABSENT

\* the stack property of the response errorHandler sends: ABSENT when the
\* response has none (an undefined stack is not serialised)
errorHandler_stack(error, nodeEnv) ==
  IF error.kind = "validation" THEN ABSENT
  ELSE IF config_isDev(nodeEnv) THEN error.stack
  ELSE ABSENT

(***************************************************************************)
(* Route schemas.  A request is a record                                   *)
(*   op      the endpoint                                                  *)
(*   hdr     the x-user-id header        qry   the userId query parameter  *)
(*   id      the :id path parameter                                        *)
(*   title, description, status   body properties (status is the ?status= *)
(*           query parameter for getTasks)                                 *)
(*   userId  a userId property smuggled into the body                      *)
(*   email, name   body properties of createUser                           *)
(***************************************************************************)
IdPattern(s) == s.fmt = "uuid"

Emails == {"e1", "e2"}
Names  == {"n1"}

\* variant: the status of the body is any string (no enum)
createTaskSchema_anyStatus(req) ==
  /\ req.title # ABSENT
  /\ StrLen(req.title) >= 1 /\ StrLen(req.title) <= 200
  /\ req.description # ABSENT => StrLen(req.description) <= 2000

createTaskSchema(req) ==
  /\ req.title # ABSENT
  /\ StrLen(req.title) >= 1 /\ StrLen(req.title) <= 200
  /\ req.description # ABSENT => StrLen(req.description) <= 2000
  /\ req.status # ABSENT => req.status \in TaskStatus

\* variant: ARCHIVED can only be set through the archive endpoint
updateTaskSchema_noArchived(req) ==
  /\ req.title # ABSENT => (StrLen(req.title) >= 1 /\ StrLen(req.title) <= 200)
  /\ req.description # ABSENT => StrLen(req.description) <= 2000
  /\ req.status # ABSENT => req.status \in TaskStatus \ {"ARCHIVED"}
  /\ IdPattern(req.id)

updateTaskSchema(req) ==
  /\ req.title # ABSENT => (StrLen(req.title) >= 1 /\ StrLen(req.title) <= 200)
  /\ req.description # ABSENT => StrLen(req.description) <= 2000
  /\ req.status # ABSENT => req.status \in TaskStatus
  /\ IdPattern(req.id)

getTaskSchema(req)     == IdPattern(req.id)
deleteTaskSchema(req)  == IdPattern(req.id)
archiveTaskSchema(req) == IdPattern(req.id)
listTasksSchema(req)   == req.status # ABSENT => req.status \in TaskStatus

createUserSchema(req) ==
  /\ req.email # ABSENT /\ req.email \in Emails
  /\ req.name # ABSENT /\ StrLen(req.name) >= 1 /\ StrLen(req.name) <= 100

getUserSchema(req) == IdPattern(req.id)

TaskOps == {"getTasks", "createTask", "getTaskById", "updateTask",
            "deleteTask", "archiveTask"}
UserOps == {"createUser", "getUserById"}

\* the schema each route is registered with
RouteSchema(req) ==
  CASE req.op = "getTasks"    -> listTasksSchema(req)
    [] req.op = "createTask"  -> createTaskSchema(req)
    [] req.op = "getTaskById" -> getTaskSchema(req)
    [] req.op = "updateTask"  -> updateTaskSchema(req)
    [] req.op = "deleteTask"  -> deleteTaskSchema(req)
    [] req.op = "archiveTask" -> archiveTaskSchema(req)
    [] req.op = "createUser"  -> createUserSchema(req)
    [] req.op = "getUserById" -> getUserSchema(req)

(***************************************************************************)
(* Repositories: one store statement each.  A lookup returns <<row>> or   *)
(* <<>> (null).                                                            *)
(***************************************************************************)
RECURSIVE OrderByCreatedAtDesc(_)
OrderByCreatedAtDesc(rows) ==
  IF rows = {} THEN <<>>
  ELSE LET newest == CHOOSE r \in rows : \A q \in rows : q.createdAt <= r.createdAt
       IN  <<newest>> \o OrderByCreatedAtDesc(rows \ {newest})

TaskRepository_findById(ts, id) ==
  IF id \in DOMAIN ts THEN <<ts[id]>> ELSE <<>>

\* variant: the where clause has the status filter only
TaskRepository_findByUserId_anyOwner(ts, userId, status) ==
  OrderByCreatedAtDesc(
    {ts[i] : i \in {j \in DOMAIN ts :
                      status # ABSENT => ts[j].status = status}})

\* variant: the rows come oldest first (orderBy createdAt asc)
TaskRepository_findByUserId_oldestFirst(ts, userId, status) ==
  LET rows == OrderByCreatedAtDesc(
                {ts[i] : i \in {j \in DOMAIN ts :
                                  /\ ts[j].userId = userId
                                  /\ status # ABSENT => ts[j].status = status}})
  IN  [i \in 1 .. Len(rows) |-> rows[Len(rows) + 1 - i]]

\* variant: archived tasks are left out of the unfiltered list
TaskRepository_findByUserId_hideArchived(ts, userId, status) ==
  OrderByCreatedAtDesc(
    {ts[i] : i \in {j \in DOMAIN ts :
                      /\ ts[j].userId = userId
                      /\ IF status = ABSENT THEN ts[j].status # "ARCHIVED"
                                            ELSE ts[j].status = status}})

\* filters.status is applied only when it is truthy
TaskRepository_findByUserId(ts, userId, status) ==
  OrderByCreatedAtDesc(
    {ts[i] : i \in {j \in DOMAIN ts :
                      /\ ts[j].userId = userId
                      /\ status # ABSENT => ts[j].status = status}})

\* variant: the body is spread into the row, a userId in it included
TaskRepository_create_spreadBody(id, createdAt, userId, data) ==
  [id          |-> id,
   title       |-> data.title,
   description |-> IF data.description = ABSENT THEN NULL ELSE data.description,
   status      |-> IF data.status = ABSENT THEN "TODO" ELSE data.status,
   userId      |-> IF data.userId.fmt = "undefined" THEN userId ELSE data.userId,
   createdAt   |-> createdAt]

\* variant: the status of the body is not passed on
TaskRepository_create_alwaysTodo(id, createdAt, userId, data) ==
  [id          |-> id,
   title       |-> data.title,
   description |-> IF data.description = ABSENT THEN NULL ELSE data.description,
   status      |-> "TODO",
   userId      |-> userId,
   createdAt   |-> createdAt]

\* the row prisma.task.create inserts: id and createdAt come from the store
TaskRepository_create(id, createdAt, userId, data) ==
  [id          |-> id,
   title       |-> data.title,
   description |-> IF data.description = ABSENT THEN NULL ELSE data.description,
   status      |-> IF data.status = ABSENT THEN "TODO" ELSE data.status,
   userId      |-> userId,
   createdAt   |-> createdAt]

\* variant: the body is spread into the update, a userId in it included
TaskRepository_update_spreadBody(row, data) ==
  [row EXCEPT
     !.title       = IF data.title # ABSENT /\ data.title # ""
                       THEN data.title ELSE @,
     !.description = IF data.description # ABSENT THEN data.description ELSE @,
     !.status      = IF data.status # ABSENT THEN data.status ELSE @,
     !.userId      = IF data.userId.fmt # "undefined" THEN data.userId ELSE @]

\* variant: description is passed on only when it is truthy
TaskRepository_update_truthyDescription(row, data) ==
  [row EXCEPT
     !.title       = IF data.title # ABSENT /\ data.title # ""
                       THEN data.title ELSE @,
     !.description = IF data.description # ABSENT /\ data.description # ""
                       THEN data.description ELSE @,
     !.status      = IF data.status # ABSENT THEN data.status ELSE @]

\* variant: an ARCHIVED task keeps its status
TaskRepository_update_archivedFinal(row, data) ==
  [row EXCEPT
     !.title       = IF data.title # ABSENT /\ data.title # ""
                       THEN data.title ELSE @,
     !.description = IF data.description # ABSENT THEN data.description ELSE @,
     !.status      = IF data.status # ABSENT /\ row.status # "ARCHIVED"
                       THEN data.status ELSE @]

\* the row after prisma.task.update with the fields the repository passes on
TaskRepository_update(row, data) ==
  [row EXCEPT
     !.title       = IF data.title # ABSENT /\ data.title # ""
                       THEN data.title ELSE @,
     !.description = IF data.description # ABSENT THEN data.description ELSE @,
     !.status      = IF data.status # ABSENT THEN data.status ELSE @]

\* variant: a soft delete
TaskRepository_delete_soft(ts, id) == [ts EXCEPT ![id].status = "ARCHIVED"]

TaskRepository_delete(ts, id) == [i \in DOMAIN ts \ {id} |-> ts[i]]

\* variant: only a DONE task is archived
TaskRepository_archive_guarded(row) ==
  IF row.status = "DONE" THEN [row EXCEPT !.status = "ARCHIVED"] ELSE row

\* variant: archiving an archived task puts it back to TODO
TaskRepository_archive_toggle(row) ==
  [row EXCEPT !.status = IF @ = "ARCHIVED" THEN "TODO" ELSE "ARCHIVED"]

TaskRepository_archive(row) == [row EXCEPT !.status = "ARCHIVED"]

UserRepository_findById(us, id) ==
  IF id \in DOMAIN us THEN <<us[id]>> ELSE <<>>

UserRepository_findByEmail(us, email) ==
  LET hit == {i \in DOMAIN us : us[i].email = email}
  IN  IF hit = {} THEN <<>> ELSE <<us[CHOOSE i \in hit : TRUE]>>

UserRepository_create(id, data) ==
  [id |-> id, email |-> data.email, name |-> data.name]

\* variant: the tasks of a deleted user stay (no cascade)
CascadeDelete_none(ts, userId) == ts

\* onDelete: Cascade of Task.user
CascadeDelete(ts, userId) ==
  [i \in {j \in DOMAIN ts : ts[j].userId # userId} |-> ts[i]]

(***************************************************************************)
(* A request in progress: the store it runs against, the request, and the *)
(* locals of its handler.  pc is the next store interaction:               *)
(*   "validate"  nothing done yet                                          *)
(*   "auth"      authMiddleware is about to look the user up               *)
(*   "handler"   the service method is about to make its first store call  *)
(*   "write"     the service method is about to make its second store call *)
(*   "done"      resp has been sent                                        *)
(* fresh is the uuid the store generates if the request inserts a task,   *)
(* task the row the service method read with findById (<<>> for null).    *)
(***************************************************************************)
Start(us, ts, usedT, usedU, req, fresh) ==
  [users |-> us, tasks |-> ts, usedTasks |-> usedT, usedUsers |-> usedU,
   req |-> req, fresh |-> fresh,
   pc |-> "validate", userId |-> Undefined, task |-> <<>>, resp |-> NoReply]

Send(c, resp) == [c EXCEPT !.pc = "done", !.resp = resp]
Throw(c, error) == Send(c, errorHandler(error))

UUID_REGEX(s) == s.fmt \in {"uuid", "UUID"}

\* variant: the query parameter is also used when the header is malformed
Credential_fallbackOnMalformed(req) ==
  IF req.hdr.fmt \in {"undefined", "empty", "text"} THEN req.qry ELSE req.hdr

\* authMiddleware up to its store lookup: header first, query as fallback
\* when the header is falsy (absent or empty)
Credential(req) ==
  IF req.hdr.fmt \in {"undefined", "empty"} THEN req.qry ELSE req.hdr

authMiddleware_extract(c) ==
  LET userId == Credential(c.req) IN
  IF userId.fmt \in {"undefined", "empty"} THEN Throw(c, UnauthorizedError)
  ELSE IF ~UUID_REGEX(userId) THEN Throw(c, UnauthorizedError)
  ELSE [c EXCEPT !.pc = "auth", !.userId = userId]

\* prisma.user.findUnique({where: {id: userId}}) and what follows it
authMiddleware_lookup(c) ==
  IF UserRepository_findById(c.users, c.userId) = <<>>
    THEN Throw(c, UnauthorizedError)
    ELSE [c EXCEPT !.pc = "handler"]

\* schema validation runs before the preHandler hook
Receive(c) ==
  IF ~RouteSchema(c.req) THEN Throw(c, SchemaValidationError)
  ELSE IF c.req.op \in TaskOps THEN authMiddleware_extract(c)
  ELSE [c EXCEPT !.pc = "handler"]

(***************************************************************************)
(* TaskService and UserService.  A method that makes two store calls is   *)
(* two steps: _check is everything up to and including the first call and *)
(* the tests on its result, _write the second call.                        *)
(***************************************************************************)
TaskService_getTasks(c) ==
  Send(c, Reply(200, TaskRepository_findByUserId(c.tasks, c.userId, c.req.status)))

\* variant: no authorization check
TaskService_getTaskById_noOwnerCheck(c) ==
  LET task == TaskRepository_findById(c.tasks, c.req.id) IN
  IF task = <<>> THEN Throw(c, NotFoundError)
  ELSE Send(c, Reply(200, task))

TaskService_getTaskById(c) ==
  LET task == TaskRepository_findById(c.tasks, c.req.id) IN
  IF task = <<>> THEN Throw(c, NotFoundError)
  ELSE IF task[1].userId # c.userId THEN Throw(c, ForbiddenError)
  ELSE Send(c, Reply(200, task))

\* variant: userId is a plain column, without a foreign key
TaskService_createTask_noForeignKey(c) ==
  LET row == TaskRepository_create(c.fresh, Cardinality(c.usedTasks) + 1,
                                   c.userId, c.req)
  IN  Send([c EXCEPT !.tasks = (c.fresh :> row) @@ c.tasks,
                     !.usedTasks = c.usedTasks \cup {c.fresh}],
           Reply(201, <<row>>))

\* prisma.task.create fails on the foreign key when the user row is gone
TaskService_createTask(c) ==
  IF c.userId \notin DOMAIN c.users THEN Throw(c, PrismaError("P2003"))
  ELSE LET row == TaskRepository_create(c.fresh, Cardinality(c.usedTasks) + 1,
                                        c.userId, c.req)
       IN  Send([c EXCEPT !.tasks = (c.fresh :> row) @@ c.tasks,
                          !.usedTasks = c.usedTasks \cup {c.fresh}],
                Reply(201, <<row>>))

\* variant: the update is applied before the authorization check
TaskService_updateTask_check_writeFirst(c) ==
  LET task == TaskRepository_findById(c.tasks, c.req.id) IN
  IF task = <<>> THEN Throw(c, NotFoundError)
  ELSE IF task[1].userId # c.userId
    THEN Throw([c EXCEPT !.tasks[c.req.id] = TaskRepository_update(task[1], c.req)],
               ForbiddenError)
  ELSE [c EXCEPT !.pc = "write", !.task = task]

TaskService_updateTask_check(c) ==
  LET task == TaskRepository_findById(c.tasks, c.req.id) IN
  IF task = <<>> THEN Throw(c, NotFoundError)
  ELSE IF task[1].userId # c.userId THEN Throw(c, ForbiddenError)
  ELSE [c EXCEPT !.pc = "write", !.task = task]

\* variant: the row read by findById is written back with the changes
TaskService_updateTask_write_stale(c) ==
  IF c.req.id \notin DOMAIN c.tasks THEN Throw(c, PrismaError("P2025"))
  ELSE LET row == TaskRepository_update(c.task[1], c.req)
       IN  Send([c EXCEPT !.tasks[c.req.id] = row], Reply(200, <<row>>))

\* prisma.task.update throws when no row has the id
TaskService_updateTask_write(c) ==
  IF c.req.id \notin DOMAIN c.tasks THEN Throw(c, PrismaError("P2025"))
  ELSE LET row == TaskRepository_update(c.tasks[c.req.id], c.req)
       IN  Send([c EXCEPT !.tasks[c.req.id] = row], Reply(200, <<row>>))

\* variant: no authorization check
TaskService_deleteTask_check_noOwnerCheck(c) ==
  LET task == TaskRepository_findById(c.tasks, c.req.id) IN
  IF task = <<>> THEN Throw(c, NotFoundError)
  ELSE [c EXCEPT !.pc = "write", !.task = task]

TaskService_deleteTask_check(c) ==
  LET task == TaskRepository_findById(c.tasks, c.req.id) IN
  IF task = <<>> THEN Throw(c, NotFoundError)
  ELSE IF task[1].userId # c.userId THEN Throw(c, ForbiddenError)
  ELSE [c EXCEPT !.pc = "write", !.task = task]

TaskService_deleteTask_write(c) ==
  IF c.req.id \notin DOMAIN c.tasks THEN Throw(c, PrismaError("P2025"))
  ELSE Send([c EXCEPT !.tasks = TaskRepository_delete(c.tasks, c.req.id)],
            Reply(204, <<>>))

\* variant: the caller is compared with itself, so that any caller passes
TaskService_archiveTask_check_selfCompare(c) ==
  LET task == TaskRepository_findById(c.tasks, c.req.id) IN
  IF task = <<>> THEN Throw(c, NotFoundError)
  ELSE IF c.userId # c.userId THEN Throw(c, ForbiddenError)
  ELSE [c EXCEPT !.pc = "write", !.task = task]

\* variant: the authorization check comes first (task?.userId !== userId)
TaskService_archiveTask_check_ownerFirst(c) ==
  LET task == TaskRepository_findById(c.tasks, c.req.id) IN
  IF task = <<>> \/ task[1].userId # c.userId THEN Throw(c, ForbiddenError)
  ELSE [c EXCEPT !.pc = "write", !.task = task]

TaskService_archiveTask_check(c) ==
  LET task == TaskRepository_findById(c.tasks, c.req.id) IN
  IF task = <<>> THEN Throw(c, NotFoundError)
  ELSE IF task[1].userId # c.userId THEN Throw(c, ForbiddenError)
  ELSE [c EXCEPT !.pc = "write", !.task = task]

TaskService_archiveTask_write(c) ==
  IF c.req.id \notin DOMAIN c.tasks THEN Throw(c, PrismaError("P2025"))
  ELSE LET row == TaskRepository_archive(c.tasks[c.req.id])
       IN  Send([c EXCEPT !.tasks[c.req.id] = row], Reply(200, <<row>>))

UserService_getUserById(c) ==
  LET user == UserRepository_findById(c.users, c.req.id) IN
  IF user = <<>> THEN Throw(c, NotFoundError)
  ELSE Send(c, Reply(200, user))

\* variant: an existing user of that email is updated with the new name
UserService_createUser_check_upsert(c) ==
  LET user == UserRepository_findByEmail(c.users, c.req.email) IN
  IF user # <<>>
    THEN LET row == [user[1] EXCEPT !.name = c.req.name]
         IN  Send([c EXCEPT !.users[row.id] = row], Reply(200, <<row>>))
    ELSE [c EXCEPT !.pc = "write"]

UserService_createUser_check(c) ==
  IF UserRepository_findByEmail(c.users, c.req.email) # <<>>
    THEN Throw(c, ConflictError)
    ELSE [c EXCEPT !.pc = "write"]

\* variant: the email column has no unique index
UserService_createUser_write_noUniqueIndex(c) ==
  LET id  == Uuid(c.usedUsers + 1)
      row == UserRepository_create(id, c.req)
  IN  Send([c EXCEPT !.users = (id :> row) @@ c.users,
                     !.usedUsers = c.usedUsers + 1],
           Reply(201, <<row>>))

\* prisma.user.create fails on the unique index of email
UserService_createUser_write(c) ==
  IF UserRepository_findByEmail(c.users, c.req.email) # <<>>
    THEN Throw(c, PrismaError("P2002"))
  ELSE LET id  == Uuid(c.usedUsers + 1)
           row == UserRepository_create(id, c.req)
       IN  Send([c EXCEPT !.users = (id :> row) @@ c.users,
                          !.usedUsers = c.usedUsers + 1],
                Reply(201, <<row>>))

\* the route handlers: which service method each route calls
Handler(c) ==
  CASE c.req.op = "getTasks"    -> TaskService_getTasks(c)
    [] c.req.op = "createTask"  -> TaskService_createTask(c)
    [] c.req.op = "getTaskById" -> TaskService_getTaskById(c)
    [] c.req.op = "updateTask"  -> TaskService_updateTask_check(c)
    [] c.req.op = "deleteTask"  -> TaskService_deleteTask_check(c)
    [] c.req.op = "archiveTask" -> TaskService_archiveTask_check(c)
    [] c.req.op = "createUser"  -> UserService_createUser_check(c)
    [] c.req.op = "getUserById" -> UserService_getUserById(c)

Write(c) ==
  CASE c.req.op = "updateTask"  -> TaskService_updateTask_write(c)
    [] c.req.op = "deleteTask"  -> TaskService_deleteTask_write(c)
    [] c.req.op = "archiveTask" -> TaskService_archiveTask_write(c)
    [] c.req.op = "createUser"  -> UserService_createUser_write(c)

\* one step of a request: the code between two store interactions
Step(c) ==
  CASE c.pc = "validate" -> Receive(c)
    [] c.pc = "auth"     -> authMiddleware_lookup(c)
    [] c.pc = "handler"  -> Handler(c)
    [] c.pc = "write"    -> Write(c)
    [] c.pc = "done"     -> c

\* a request that runs to its response with no other request in between
RECURSIVE Run(_)
Run(c) == IF c.pc = "done" THEN c ELSE Run(Step(c))

(***************************************************************************)
(* The requests the model issues.  The text fields of a task are drawn    *)
(* from the sets T (titles) and D (descriptions) of the specification.    *)
(***************************************************************************)
Req(op, hdr, qry, id, title, description, status, userId, email, name) ==
  [op |-> op, hdr |-> hdr, qry |-> qry, id |-> id, title |-> title,
   description |-> description, status |-> status, userId |-> userId,
   email |-> email, name |-> name]

\* <<x-user-id header, userId query parameter>>
OwnCreds == {<<u, Undefined>> : u \in UserIds}
NoCred   == <<Undefined, Undefined>>
CredPairs ==
  OwnCreds
    \cup {NoCred, <<Upper(1), Undefined>>, <<Garbage, Undefined>>}
    \cup {<<Undefined, q>> : q \in UserIds}
    \cup {<<Empty, Uuid(1)>>, <<Garbage, Uuid(1)>>, <<Uuid(2), Uuid(1)>>}

PathIds == TaskIds \cup {Uuid(1), Upper(101), Garbage}

TaskReq(op, cred, id, title, description, status, userId) ==
  Req(op, cred[1], cred[2], id, title, description, status, userId, ABSENT, ABSENT)

GetTasksRequests ==
  {TaskReq("getTasks", cr, Undefined, ABSENT, ABSENT, st, Undefined) :
     cr \in OwnCreds \cup {NoCred}, st \in TaskStatus \cup {ABSENT, "BOGUS"}}
  \cup
  {TaskReq("getTasks", cr, Undefined, ABSENT, ABSENT, ABSENT, Undefined) :
     cr \in CredPairs}

CreateTaskRequests(T, D) ==
  {TaskReq("createTask", cr, Undefined, t, d, st, Undefined) :
     cr \in OwnCreds, t \in T, d \in D \cup {ABSENT},
     st \in TaskStatus \cup {ABSENT}}
  \cup
  {TaskReq("createTask", cr, Undefined, "a", ABSENT, ABSENT, Undefined) :
     cr \in CredPairs}
  \cup
  {TaskReq("createTask", cr, Undefined, "a", ABSENT, ABSENT, Uuid(2)) :
     cr \in OwnCreds}
  \cup
  {TaskReq("createTask", cr, Undefined, b[1], b[2], b[3], Undefined) :
     cr \in OwnCreds \cup {NoCred},
     b \in {<<ABSENT, ABSENT, ABSENT>>, <<"", ABSENT, ABSENT>>,
            <<LongTitle, ABSENT, ABSENT>>, <<"a", LongDescription, ABSENT>>,
            <<"a", ABSENT, "BOGUS">>}}

GetTaskByIdRequests ==
  {TaskReq("getTaskById", cr, id, ABSENT, ABSENT, ABSENT, Undefined) :
     cr \in OwnCreds \cup {NoCred}, id \in PathIds}
  \cup
  {TaskReq("getTaskById", cr, id, ABSENT, ABSENT, ABSENT, Undefined) :
     cr \in CredPairs, id \in TaskIds}

UpdateTaskRequests(T, D) ==
  {TaskReq("updateTask", cr, id, t, d, st, Undefined) :
     cr \in OwnCreds, id \in TaskIds, t \in T \cup {ABSENT},
     d \in D \cup {ABSENT}, st \in TaskStatus \cup {ABSENT}}
  \cup
  {TaskReq("updateTask", cr, id, ABSENT, ABSENT, "DONE", Undefined) :
     cr \in CredPairs, id \in TaskIds}
  \cup
  {TaskReq("updateTask", cr, id, ABSENT, ABSENT, "DONE", u) :
     cr \in OwnCreds \cup {NoCred}, id \in PathIds, u \in {Undefined, Uuid(2)}}
  \cup
  {TaskReq("updateTask", cr, Uuid(101), b[1], b[2], b[3], Undefined) :
     cr \in OwnCreds \cup {NoCred},
     b \in {<<"", ABSENT, ABSENT>>, <<LongTitle, ABSENT, ABSENT>>,
            <<ABSENT, LongDescription, ABSENT>>, <<ABSENT, ABSENT, "BOGUS">>}}

DeleteTaskRequests ==
  {TaskReq("deleteTask", cr, id, ABSENT, ABSENT, ABSENT, Undefined) :
     cr \in OwnCreds \cup {NoCred}, id \in PathIds}
  \cup
  {TaskReq("deleteTask", cr, id, ABSENT, ABSENT, ABSENT, Undefined) :
     cr \in CredPairs, id \in TaskIds}

ArchiveTaskRequests ==
  {TaskReq("archiveTask", cr, id, ABSENT, ABSENT, ABSENT, Undefined) :
     cr \in OwnCreds \cup {NoCred}, id \in PathIds}
  \cup
  {TaskReq("archiveTask", cr, id, ABSENT, ABSENT, ABSENT, Undefined) :
     cr \in CredPairs, id \in TaskIds}

CreateUserRequests ==
  {Req("createUser", Undefined, Undefined, Undefined, ABSENT, ABSENT, ABSENT,
       Undefined, e, n) :
     e \in Emails \cup {ABSENT, "not-an-email"}, n \in Names \cup {ABSENT, ""}}

GetUserByIdRequests ==
  {Req("getUserById", Undefined, Undefined, id, ABSENT, ABSENT, ABSENT,
       Undefined, ABSENT, ABSENT) :
     id \in UserIds \cup {Uuid(101), Garbage}}

(***************************************************************************)
(* The state machine.  Requests are served one after another: last is the *)
(* endpoint of the request just served and the status it was answered     *)
(* with, until the client has taken the response (Idle).                   *)
(***************************************************************************)
Idle == [op |-> "none", code |-> 0]

Init ==
  /\ users = <<>>
  /\ tasks = <<>>
  /\ usedTasks = {}
  /\ usedUsers = 0
  /\ last = Idle
  /\ reqs = <<>>

\* the response and the store a request ends with when it runs from the
\* current state
Outcome(req, fresh) == Run(Start(users, tasks, usedTasks, usedUsers, req, fresh))

Serve(req, fresh) ==
  /\ last = Idle
  /\ \E c \in {Outcome(req, fresh)} :
       /\ users' = c.users
       /\ tasks' = c.tasks
       /\ usedTasks' = c.usedTasks
       /\ usedUsers' = c.usedUsers
       /\ last' = [op |-> req.op, code |-> c.resp.code]
       /\ UNCHANGED reqs

GetTasks    == \E req \in GetTasksRequests : Serve(req, Undefined)
GetTaskById == \E req \in GetTaskByIdRequests : Serve(req, Undefined)
DeleteTask  == \E req \in DeleteTaskRequests : Serve(req, Undefined)
ArchiveTask == \E req \in ArchiveTaskRequests : Serve(req, Undefined)
GetUserById == \E req \in GetUserByIdRequests : Serve(req, Undefined)

\* at most cap tasks are ever created
CreateTask(T, D, cap) ==
  /\ Cardinality(usedTasks) < cap
  /\ \E req \in CreateTaskRequests(T, D) :
       \E fresh \in TaskIds \ usedTasks : Serve(req, fresh)

UpdateTask(T, D) == \E req \in UpdateTaskRequests(T, D) : Serve(req, Undefined)

CreateUser ==
  /\ usedUsers < MaxUsers
  /\ \E req \in CreateUserRequests : Serve(req, Undefined)

\* a user row deleted at the store: its tasks go with it
DbDeleteUser ==
  /\ last = Idle
  /\ \E u \in DOMAIN users :
       /\ users' = [i \in DOMAIN users \ {u} |-> users[i]]
       /\ tasks' = CascadeDelete(tasks, u)
       /\ last' = [op |-> "dbDeleteUser", code |-> 0]
       /\ UNCHANGED <<usedTasks, usedUsers, reqs>>

\* the client takes the response
TakeResponse ==
  /\ last # Idle
  /\ last' = Idle
  /\ UNCHANGED <<users, tasks, usedTasks, usedUsers, reqs>>

\* Spec: up to MaxTasks tasks, which differ in owner and status
Next ==
  \/ GetTasks
  \/ CreateTask({"a"}, {}, MaxTasks)
  \/ GetTaskById
  \/ UpdateTask({"a"}, {})
  \/ DeleteTask
  \/ ArchiveTask
  \/ CreateUser
  \/ GetUserById
  \/ DbDeleteUser
  \/ TakeResponse

Spec == Init /\ [][Next]_vars

\* SpecFields: up to MaxFieldTasks tasks, which differ in every field
MaxFieldTasks == 1
Titles        == {"a", "b"}
Descriptions  == {"", "d"}

NextFields ==
  \/ GetTasks
  \/ CreateTask(Titles, Descriptions, MaxFieldTasks)
  \/ GetTaskById
  \/ UpdateTask(Titles, Descriptions)
  \/ DeleteTask
  \/ ArchiveTask
  \/ CreateUser
  \/ GetUserById
  \/ DbDeleteUser
  \/ TakeResponse

SpecFields == Init /\ [][NextFields]_vars

(***************************************************************************)
(* Concurrent requests.  A handler suspends only at its store calls       *)
(* (await), so a request in flight advances one Step at a time and the    *)
(* steps of different requests interleave freely.  reqs maps the slot of  *)
(* each request in flight to the locals of its handler.                    *)
(***************************************************************************)
MaxRequests        == 2
MaxConcurrentTasks == 1

Slots == 1 .. MaxRequests
ConcurrentTaskIds == {Uuid(100 + n) : n \in 1 .. MaxConcurrentTasks}

\* the bodies of the concurrent updates: <<title, status>>
ConcurrentUpdates == {<<"b", ABSENT>>, <<ABSENT, "DONE">>, <<"a", "IN_PROGRESS">>}

ConcurrentRequests ==
  {Req("createUser", Undefined, Undefined, Undefined, ABSENT, ABSENT, ABSENT,
       Undefined, e, n) : e \in Emails, n \in Names}
  \cup
  {TaskReq("createTask", cr, Undefined, "a", ABSENT, ABSENT, Undefined) :
     cr \in OwnCreds}
  \cup
  {TaskReq("updateTask", cr, id, b[1], ABSENT, b[2], Undefined) :
     cr \in OwnCreds, id \in ConcurrentTaskIds, b \in ConcurrentUpdates}
  \cup
  {TaskReq(op, cr, id, ABSENT, ABSENT, ABSENT, Undefined) :
     op \in {"deleteTask", "archiveTask"}, cr \in OwnCreds,
     id \in ConcurrentTaskIds}

\* the locals a request keeps between two store calls
Locals(c) ==
  [req |-> c.req, pc |-> c.pc, userId |-> c.userId, task |-> c.task,
   resp |-> c.resp]

\* the request of slot s, about to run against the current store
Context(s, fresh) ==
  [users |-> users, tasks |-> tasks, usedTasks |-> usedTasks,
   usedUsers |-> usedUsers, req |-> reqs[s].req, fresh |-> fresh,
   pc |-> reqs[s].pc, userId |-> reqs[s].userId, task |-> reqs[s].task,
   resp |-> reqs[s].resp]

\* the requests of an endpoint that are in flight and not yet answered
Pending(op) == {s \in DOMAIN reqs : reqs[s].req.op = op /\ reqs[s].pc # "done"}

\* a request arrives: schema validation and the extraction of the credential
\* touch no store.  No more rows are ever inserted than the store has ids.
AcceptFrom(R) ==
  \E s \in Slots \ DOMAIN reqs : \E req \in R :
    /\ req.op = "createTask" =>
         Cardinality(usedTasks) + Cardinality(Pending("createTask"))
           < MaxConcurrentTasks
    /\ req.op = "createUser" =>
         usedUsers + Cardinality(Pending("createUser")) < MaxUsers
    /\ reqs' = (s :> Locals(Receive(Start(users, tasks, usedTasks, usedUsers,
                                          req, Undefined)))) @@ reqs
    /\ UNCHANGED <<users, tasks, usedTasks, usedUsers, last>>

Accept == AcceptFrom(ConcurrentRequests)

\* a request in flight makes its next store call and runs up to the
\* following one
Resume ==
  \E s \in DOMAIN reqs :
    /\ reqs[s].pc # "done"
    /\ \E fresh \in (IF reqs[s].req.op = "createTask" /\ reqs[s].pc = "handler"
                       THEN ConcurrentTaskIds \ usedTasks ELSE {Undefined}) :
         \E c \in {Step(Context(s, fresh))} :
           /\ users' = c.users
           /\ tasks' = c.tasks
           /\ usedTasks' = c.usedTasks
           /\ usedUsers' = c.usedUsers
           /\ reqs' = [reqs EXCEPT ![s] = Locals(c)]
           /\ UNCHANGED last

\* the response of an answered request is taken
Respond ==
  \E s \in DOMAIN reqs :
    /\ reqs[s].pc = "done"
    /\ reqs' = [i \in DOMAIN reqs \ {s} |-> reqs[i]]
    /\ UNCHANGED <<users, tasks, usedTasks, usedUsers, last>>

NextConcurrent ==
  \/ Accept
  \/ Resume
  \/ Respond

SpecConcurrent == Init /\ [][NextConcurrent]_vars

\* concurrent requests while user rows are deleted at the store
RequestsDuringDelete ==
  {req \in ConcurrentRequests :
     /\ req.op \in {"createUser", "createTask", "updateTask", "deleteTask"}
     /\ req.op = "updateTask" => req.status = "DONE"}

NextConcurrentDelete ==
  \/ AcceptFrom(RequestsDuringDelete)
  \/ Resume
  \/ Respond
  \/ DbDeleteUser
  \/ TakeResponse

SpecConcurrentDelete == Init /\ [][NextConcurrentDelete]_vars

(***************************************************************************)
(* The error handler on its own: any error a hook, a handler or the        *)
(* framework can throw, in any environment the process can be started in.  *)
(***************************************************************************)
Messages    == {"", "boom"}
Stacks      == {ABSENT, "Error: boom at ..."}
StatusCodes == {0, 400, 403, 413, 415, 429, 500, 503}

\* the typed application errors, the framework's schema-validation error,
\* errors of the store client, and any other error with or without a
\* statusCode of its own
Errors ==
  {[kind |-> "AppError", statusCode |-> e[1], code |-> e[2], message |-> m,
    stack |-> k] :
     e \in {<<401, "UNAUTHORIZED">>, <<403, "FORBIDDEN">>, <<404, "NOT_FOUND">>,
            <<400, "VALIDATION_ERROR">>, <<409, "CONFLICT">>},
     m \in Messages, k \in Stacks}
  \cup
  {[kind |-> "validation", statusCode |-> 400, code |-> "FST_ERR_VALIDATION",
    message |-> m, stack |-> k] : m \in Messages, k \in Stacks}
  \cup
  {[kind |-> "store", statusCode |-> 0, code |-> p, message |-> m,
    stack |-> k] :
     p \in {"P2002", "P2003", "P2025"}, m \in Messages, k \in Stacks}
  \cup
  {[kind |-> "Error", statusCode |-> n, code |-> "", message |-> m,
    stack |-> k] :
     n \in StatusCodes, m \in Messages, k \in Stacks}

Thrown(error, nodeEnv) ==
  [op |-> "thrown", code |-> 0, error |-> error, nodeEnv |-> nodeEnv]

InitErrors ==
  /\ users = <<>>
  /\ tasks = <<>>
  /\ usedTasks = {}
  /\ usedUsers = 0
  /\ reqs = <<>>
  /\ last \in {Thrown(error, nodeEnv) : error \in Errors, nodeEnv \in NodeEnvs}

\* the error reaches errorHandler, which sends the response
HandleError ==
  /\ last.op = "thrown"
  /\ \E resp \in {errorHandler(last.error)} :
       last' = [op |-> "errorHandler", code |-> resp.code, err |-> resp.err,
                message |-> errorHandler_message(last.error, last.nodeEnv),
                stack |-> errorHandler_stack(last.error, last.nodeEnv),
                error |-> last.error, nodeEnv |-> last.nodeEnv]
  /\ UNCHANGED <<users, tasks, usedTasks, usedUsers, reqs>>

NextErrors == HandleError

SpecErrors == InitErrors /\ [][NextErrors]_vars

(***************************************************************************)
(* Vocabulary of the properties.  A property about the answer to a        *)
(* request is stated of the states a request is served from (last = Idle):*)
(* for every request of the sets above, what Outcome makes of it there.    *)
(***************************************************************************)
\* the caller a request authenticates as, if it authenticates
Caller(req) == Credential(req)

\* the request passes its route schema and names an existing user
Authenticated(req) == RouteSchema(req) /\ Caller(req) \in DOMAIN users

ByIdRequests ==
  GetTaskByIdRequests \cup UpdateTaskRequests(Titles, Descriptions)
    \cup DeleteTaskRequests \cup ArchiveTaskRequests

SameStore(c) ==
  /\ c.users = users
  /\ c.tasks = tasks
  /\ c.usedTasks = usedTasks
  /\ c.usedUsers = usedUsers

\* C1: the owner of a task never changes: every step leaves the userId of
\* every task that is in the store before and after it as it was.
C1_OwnerImmutable ==
  [][\A t \in DOMAIN tasks \cap DOMAIN tasks' :
       tasks'[t].userId = tasks[t].userId]_vars

\* an update answered 200 has happened and a task it can have hit is owned
\* by the first user
C1_Witness ==
  /\ last = [op |-> "updateTask", code |-> 200]
  /\ \E t \in DOMAIN tasks : tasks[t].userId = Uuid(1) /\ tasks[t].status = "DONE"

\* C2: getTaskById, updateTask, deleteTask and archiveTask by an
\* authenticated caller who is not the owner of the existing task they name
\* are answered 403 FORBIDDEN with no data, and change nothing.
C2_NonOwnerForbidden ==
  last = Idle =>
  \A req \in ByIdRequests :
    (/\ Authenticated(req)
     /\ req.id \in DOMAIN tasks
     /\ tasks[req.id].userId # Caller(req))
    => LET c == Outcome(req, Undefined)
       IN  c.resp = ErrorReply(403, "FORBIDDEN") /\ SameStore(c)

\* a delete was answered 403 and the task of another user is still there
C2_Witness ==
  /\ last = [op |-> "deleteTask", code |-> 403]
  /\ \E t \in DOMAIN tasks : \E u \in DOMAIN users : tasks[t].userId # u

\* C3: the same four operations by an authenticated caller on a well-formed
\* id that no task has are answered 404 NOT_FOUND.
C3_MissingNotFound ==
  last = Idle =>
  \A req \in ByIdRequests :
    (Authenticated(req) /\ req.id \notin DOMAIN tasks)
    => LET c == Outcome(req, Undefined)
       IN  c.resp = ErrorReply(404, "NOT_FOUND") /\ SameStore(c)

\* an archive was answered 404 while some task of another id exists
C3_Witness ==
  /\ last = [op |-> "archiveTask", code |-> 404]
  /\ tasks # <<>>
  /\ DOMAIN tasks # TaskIds

TaskRequests ==
  GetTasksRequests \cup CreateTaskRequests(Titles, Descriptions) \cup ByIdRequests

\* the uuids the store can generate for a task created now
FreshIds == IF TaskIds \ usedTasks = {} THEN {Undefined} ELSE TaskIds \ usedTasks

\* the credential is missing, is not of the 8-4-4-4-12 hex format, or names
\* no user of the store
BadCredential(req) ==
  \/ Caller(req).fmt \in {"undefined", "empty"}
  \/ ~UUID_REGEX(Caller(req))
  \/ Caller(req) \notin DOMAIN users

\* C4: every request to a task endpoint with such a credential is answered
\* 401 UNAUTHORIZED and changes nothing.
C4_BadCredentialUnauthorized ==
  last = Idle =>
  \A req \in TaskRequests :
    BadCredential(req)
    => \A fresh \in FreshIds :
         LET c == Outcome(req, fresh)
         IN  c.resp = ErrorReply(401, "UNAUTHORIZED") /\ SameStore(c)

\* C5: getTasks by an authenticated caller is answered 200 with exactly the
\* caller's tasks, each once, narrowed to the status of the filter when
\* there is one.
C5_ListExactlyOwn ==
  last = Idle =>
  \A req \in GetTasksRequests :
    Authenticated(req)
    => LET c    == Outcome(req, Undefined)
           rows == {c.resp.data[i] : i \in 1 .. Len(c.resp.data)}
           own  == {tasks[t] : t \in {x \in DOMAIN tasks :
                      /\ tasks[x].userId = Caller(req)
                      /\ req.status # ABSENT => tasks[x].status = req.status}}
       IN  /\ c.resp.code = 200
           /\ rows = own
           /\ Len(c.resp.data) = Cardinality(own)
           /\ SameStore(c)

\* a list was answered while two users each own a task, the two tasks in
\* different statuses
C5_Witness ==
  /\ last = [op |-> "getTasks", code |-> 200]
  /\ \E t1, t2 \in DOMAIN tasks :
       /\ tasks[t1].userId # tasks[t2].userId
       /\ tasks[t1].status # tasks[t2].status

\* C6: createTask by an authenticated caller stores the new task under the
\* caller's id, whatever the body holds, and returns that row.
C6_CreateOwnedByCaller ==
  last = Idle =>
  \A req \in CreateTaskRequests(Titles, Descriptions) :
    Authenticated(req)
    => \A fresh \in TaskIds \ usedTasks :
         LET c == Outcome(req, fresh)
         IN  /\ c.resp.code = 201
             /\ DOMAIN c.tasks = DOMAIN tasks \cup {fresh}
             /\ c.tasks[fresh].userId = Caller(req)
             /\ c.resp.data = <<c.tasks[fresh]>>
             /\ \A t \in DOMAIN tasks : c.tasks[t] = tasks[t]

\* a create was answered 201 and the first user, whom no smuggled userId
\* names, owns a task
C6_Witness ==
  /\ last = [op |-> "createTask", code |-> 201]
  /\ \E t \in DOMAIN tasks : tasks[t].userId = Uuid(1)
  /\ Uuid(2) \in DOMAIN users

\* C7: the task createTask stores has status TODO when the body has no
\* status and the status of the body otherwise.
C7_CreateStatus ==
  last = Idle =>
  \A req \in CreateTaskRequests(Titles, Descriptions) :
    Authenticated(req)
    => \A fresh \in TaskIds \ usedTasks :
         LET c == Outcome(req, fresh)
         IN  /\ fresh \in DOMAIN c.tasks
             /\ c.tasks[fresh].status =
                  (IF req.status = ABSENT THEN "TODO" ELSE req.status)
             /\ c.tasks[fresh].status \in TaskStatus

\* a create was answered 201 and the store holds a TODO task and an
\* ARCHIVED one
C7_Witness ==
  /\ last = [op |-> "createTask", code |-> 201]
  /\ \E t1, t2 \in DOMAIN tasks :
       tasks[t1].status = "TODO" /\ tasks[t2].status = "ARCHIVED"

\* the caller is authenticated and owns the existing task the request names
ByOwner(req) ==
  /\ Authenticated(req)
  /\ req.id \in DOMAIN tasks
  /\ tasks[req.id].userId = Caller(req)

\* the store differs from the current one in the row of task id at most
OnlyTaskChanged(c, id) ==
  /\ c.users = users
  /\ c.usedTasks = usedTasks
  /\ c.usedUsers = usedUsers
  /\ DOMAIN c.tasks = DOMAIN tasks
  /\ \A t \in DOMAIN tasks \ {id} : c.tasks[t] = tasks[t]

\* C8: archiveTask by the owner is answered 200 whatever the status of the
\* task, and leaves it ARCHIVED with every other field as it was.
C8_ArchiveSetsArchived ==
  last = Idle =>
  \A req \in ArchiveTaskRequests :
    ByOwner(req)
    => LET c == Outcome(req, Undefined)
       IN  /\ c.resp.code = 200
           /\ OnlyTaskChanged(c, req.id)
           /\ c.tasks[req.id] = [tasks[req.id] EXCEPT !.status = "ARCHIVED"]
           /\ c.resp.data = <<c.tasks[req.id]>>

\* an archive was answered 200 and an ARCHIVED task has a title and a
\* description that only an update can have given it
C8_Witness ==
  /\ last = [op |-> "archiveTask", code |-> 200]
  /\ \E t \in DOMAIN tasks :
       /\ tasks[t].status = "ARCHIVED"
       /\ tasks[t].title = "b"
       /\ tasks[t].description = "d"

\* the value a field has after an update: the supplied one, or the old one
\* when the body does not have the property
Updated(old, supplied) == IF supplied = ABSENT THEN old ELSE supplied

\* C9: updateTask by the owner is answered 200 and sets title, description
\* and status to what the body supplies, an empty description included;
\* a field the body does not have, the id, the owner and the creation time
\* stay as they were.
C9_UpdateOnlySupplied ==
  last = Idle =>
  \A req \in UpdateTaskRequests(Titles, Descriptions) :
    ByOwner(req)
    => LET c   == Outcome(req, Undefined)
           old == tasks[req.id]
       IN  /\ c.resp.code = 200
           /\ OnlyTaskChanged(c, req.id)
           /\ c.tasks[req.id] =
                [id          |-> old.id,
                 title       |-> Updated(old.title, req.title),
                 description |-> Updated(old.description, req.description),
                 status      |-> Updated(old.status, req.status),
                 userId      |-> old.userId,
                 createdAt   |-> old.createdAt]
           /\ c.resp.data = <<c.tasks[req.id]>>

\* an update was answered 200 and a task has the empty description, the
\* second title and a status other than the default
C9_Witness ==
  /\ last = [op |-> "updateTask", code |-> 200]
  /\ \E t \in DOMAIN tasks :
       /\ tasks[t].description = ""
       /\ tasks[t].title = "b"
       /\ tasks[t].status = "IN_PROGRESS"

\* the ids of the tasks that were in the store and are not any more
Gone == usedTasks \ DOMAIN tasks

\* a successful delete removes the row it names and nothing else; every
\* operation on the id of a removed task is answered 404, and no list shows
\* a removed task
C10_Now ==
  last = Idle =>
  /\ \A req \in DeleteTaskRequests :
       ByOwner(req)
       => LET c == Outcome(req, Undefined)
          IN  /\ c.resp = Reply(204, <<>>)
              /\ DOMAIN c.tasks = DOMAIN tasks \ {req.id}
              /\ \A t \in DOMAIN c.tasks : c.tasks[t] = tasks[t]
              /\ c.users = users
  /\ \A req \in ByIdRequests :
       (Authenticated(req) /\ req.id \in Gone)
       => Outcome(req, Undefined).resp = ErrorReply(404, "NOT_FOUND")
  /\ \A req \in GetTasksRequests :
       LET data == Outcome(req, Undefined).resp.data
       IN  \A i \in 1 .. Len(data) : data[i].id \notin Gone

\* C10: after deleteTask by the owner the task is gone for good: the delete
\* removes that row only, no later step brings the id back, operations on
\* it are answered 404 and lists do not show it.
C10_DeletedStaysGone ==
  /\ []C10_Now
  /\ [][\A t \in Gone : t \notin DOMAIN tasks']_vars

\* a delete was answered 204, its task is gone and another task is still
\* in the store
C10_Witness ==
  /\ last = [op |-> "deleteTask", code |-> 204]
  /\ Gone # {}
  /\ tasks # <<>>

\* C11: a task operation answered 401, 403 or 404 leaves the store as it
\* was: the users, every task with its title, description, status and owner,
\* and the ids the store has handed out.
C11_FailureChangesNothing ==
  last = Idle =>
  \A req \in TaskRequests :
    \A fresh \in FreshIds :
      LET c == Outcome(req, fresh)
      IN  c.resp.code \in {401, 403, 404} => SameStore(c)

\* an update was answered 403 and the task of the other user still has a
\* title, a description and a status an update of its owner gave it
C11_Witness ==
  /\ last = [op |-> "updateTask", code |-> 403]
  /\ Cardinality(DOMAIN users) = 2
  /\ \E t \in DOMAIN tasks :
       /\ tasks[t].title = "b"
       /\ tasks[t].description = "d"
       /\ tasks[t].status = "IN_PROGRESS"

\* a createUser request with a well-formed body
CreateUserAs(email, name) ==
  Req("createUser", Undefined, Undefined, Undefined, ABSENT, ABSENT, ABSENT,
      Undefined, email, name)

\* C12: createUser with the email of an existing user, under the same or
\* another name, is answered 409 CONFLICT; no user is created and the
\* existing user keeps its record.
C12_DuplicateEmailConflict ==
  last = Idle =>
  \A email \in Emails : \A name \in Names \cup {"n2"} :
    (\E u \in DOMAIN users : users[u].email = email)
    => LET c == Outcome(CreateUserAs(email, name), Undefined)
       IN  c.resp = ErrorReply(409, "CONFLICT") /\ SameStore(c)

\* a createUser was answered 409 and the store has exactly the one user
\* created before it
C12_Witness ==
  /\ last = [op |-> "createUser", code |-> 409]
  /\ Cardinality(DOMAIN users) = 1
  /\ usedUsers = 1

\* the requests in flight (answered or not) of an endpoint
InFlight(op) == {s \in DOMAIN reqs : reqs[s].req.op = op}

\* no two users have the same email; of the createUser requests in flight
\* for one email at most one has been answered 201, and every answered one
\* has 201, 409 CONFLICT or 500 INTERNAL_ERROR
C13_Now ==
  /\ \A u1, u2 \in DOMAIN users :
       users[u1].email = users[u2].email => u1 = u2
  /\ \A s1, s2 \in InFlight("createUser") :
       (/\ reqs[s1].req.email = reqs[s2].req.email
        /\ reqs[s1].resp.code = 201
        /\ reqs[s2].resp.code = 201) => s1 = s2
  /\ \A s \in InFlight("createUser") :
       reqs[s].pc = "done" =>
         \/ /\ reqs[s].resp.code = 201
            /\ Len(reqs[s].resp.data) = 1
            /\ reqs[s].resp.data[1].email = reqs[s].req.email
         \/ reqs[s].resp = ErrorReply(409, "CONFLICT")
         \/ reqs[s].resp = ErrorReply(500, "INTERNAL_ERROR")

\* the step that answers a createUser request with an error creates nothing,
\* and the step that answers it 201 creates exactly one user, of an email no
\* user had
C13_Step ==
  \A s \in InFlight("createUser") :
    (reqs[s].pc # "done" /\ s \in DOMAIN reqs' /\ reqs'[s].pc = "done")
    => IF reqs'[s].resp.code = 201
         THEN /\ Cardinality(DOMAIN users' \ DOMAIN users) = 1
              /\ \A u \in DOMAIN users :
                   u \in DOMAIN users' /\ users'[u] = users[u]
                     /\ users[u].email # reqs[s].req.email
         ELSE users' = users

\* C13: at most one user has any given email, also after concurrent
\* createUser requests of the same email: at most one of them creates a
\* user, the others are answered 409 CONFLICT or 500 INTERNAL_ERROR (the
\* unhandled unique-constraint violation) and create nothing.
C13_UniqueEmail == []C13_Now /\ [][C13_Step]_vars

\* two createUser requests of one email ran concurrently: one was answered
\* 201, the other passed its email check and then failed on the insert
C13_Witness ==
  \E s1, s2 \in InFlight("createUser") :
    /\ reqs[s1].req.email = reqs[s2].req.email
    /\ reqs[s1].resp.code = 201
    /\ reqs[s2].resp = ErrorReply(500, "INTERNAL_ERROR")
    /\ Cardinality(DOMAIN users) = 1

\* the endpoints that change or remove one task
MutatingOps == {"updateTask", "archiveTask", "deleteTask"}

\* slot s holds a request that this step answers
Answered(s) ==
  /\ s \in DOMAIN reqs
  /\ reqs[s].pc # "done"
  /\ s \in DOMAIN reqs'
  /\ reqs'[s].pc = "done"

\* C14: an authenticated updateTask, archiveTask or deleteTask with a
\* well-formed id is answered 200 (204 for deleteTask), 403 or 404 under
\* every interleaving, a delete between its check and its write included.
C14_NoServerError ==
  [][\A s \in DOMAIN reqs :
       (/\ Answered(s)
        /\ reqs[s].req.op \in MutatingOps
        /\ reqs[s].pc \in {"handler", "write"})
       => reqs'[s].resp.code \in
            {IF reqs[s].req.op = "deleteTask" THEN 204 ELSE 200, 403, 404}]_vars

\* C15: the write of an updateTask request that passed its check succeeds
\* whatever happened to the row since it was read, provided the row is still
\* there: it is answered 200 and sets the fields of its body on the row as
\* the store holds it now, so a field only the other request supplied keeps
\* that request's value and the last write of a field wins.
C15_LastWriteWins ==
  [][\A s \in DOMAIN reqs :
       (/\ Answered(s)
        /\ reqs[s].req.op = "updateTask"
        /\ reqs[s].pc = "write"
        /\ reqs[s].req.id \in DOMAIN tasks)
       => LET req == reqs[s].req
              now == tasks[req.id]
          IN  /\ reqs'[s].resp.code = 200
              /\ tasks'[req.id] =
                   [now EXCEPT !.title = Updated(now.title, req.title),
                               !.status = Updated(now.status, req.status)]
              /\ reqs'[s].resp.data = <<tasks'[req.id]>>
              /\ \A t \in DOMAIN tasks \ {req.id} : tasks'[t] = tasks[t]]_vars

\* two updates of one task both read the row as it was created (title "a",
\* status TODO), one supplied only the title and the other only the status,
\* both were answered 200, and the row has the title of the one and the
\* status of the other
C15_Witness ==
  \E s1, s2 \in InFlight("updateTask") :
    /\ reqs[s1].resp.code = 200 /\ reqs[s2].resp.code = 200
    /\ reqs[s1].req.id = reqs[s2].req.id
    /\ reqs[s1].req.title = "b" /\ reqs[s1].req.status = ABSENT
    /\ reqs[s2].req.title = ABSENT /\ reqs[s2].req.status = "DONE"
    /\ reqs[s1].task[1].status = "TODO" /\ reqs[s1].task[1].title = "a"
    /\ reqs[s2].task[1].status = "TODO" /\ reqs[s2].task[1].title = "a"
    /\ tasks[reqs[s1].req.id].title = "b"
    /\ tasks[reqs[s1].req.id].status = "DONE"

\* C16: a request to a task endpoint that has no valid credential and whose
\* body, query string or task id also fails the route schema is answered
\* 401 UNAUTHORIZED, not 400.
C16_AuthBeforeValidation ==
  last = Idle =>
  \A req \in TaskRequests :
    (BadCredential(req) /\ ~RouteSchema(req))
    => LET resp == Outcome(req, Undefined).resp
       IN  resp.code = 401 /\ resp.code # 400

Transitions ==
  {<<tasks[req.id].status, req.status>> :
     req \in {r \in UpdateTaskRequests({"a"}, {}) :
                ByOwner(r) /\ r.status \in TaskStatus}}

C18_Cascade ==
  [][/\ last'.op = "dbDeleteUser" =>
          \E u \in DOMAIN users :
            /\ DOMAIN users' = DOMAIN users \ {u}
            /\ \A v \in DOMAIN users' : users'[v] = users[v]
            /\ DOMAIN tasks' = {t \in DOMAIN tasks : tasks[t].userId # u}
            /\ \A t \in DOMAIN tasks' : tasks'[t] = tasks[t]
     /\ last' = [op |-> "deleteTask", code |-> 204] =>
          /\ users' = users
          /\ \A t \in DOMAIN tasks : tasks[t].userId \in DOMAIN users'
          /\ Cardinality(DOMAIN tasks \ DOMAIN tasks') = 1
          /\ DOMAIN tasks' \subseteq DOMAIN tasks
          /\ \A t \in DOMAIN tasks' : tasks'[t] = tasks[t]]_vars

\* a user that owned a task was deleted: its task is gone, and the other
\* user and its task are still in the store
C18_Witness ==
  /\ last.op = "dbDeleteUser"
  /\ Cardinality(usedTasks) = 2
  /\ Cardinality(DOMAIN tasks) = 1
  /\ Cardinality(DOMAIN users) = 1
  /\ \A t \in DOMAIN tasks : tasks[t].userId \in DOMAIN users

\* what a credential channel can carry: nothing, the empty string, text that
\* is no uuid, the upper-case spelling of a user's id, and users' ids
ChannelValues == {Undefined, Empty, Garbage, Upper(1)} \cup UserIds

\* requests that differ in their credential channels only
ChannelRequests ==
  {TaskReq("getTasks", <<h, q>>, Undefined, ABSENT, ABSENT, ABSENT, Undefined) :
     h \in ChannelValues, q \in ChannelValues}
  \cup
  {TaskReq("getTaskById", <<h, q>>, id, ABSENT, ABSENT, ABSENT, Undefined) :
     h \in ChannelValues, q \in ChannelValues, id \in TaskIds}

\* the request is served with identifier id: it passes authMiddleware, id is
\* what the handler gets as userId, and a list is the list of id's tasks
ServedAs(req, id) ==
  LET c == Outcome(req, Undefined)
  IN  /\ c.resp.code \in {200, 403, 404}
      /\ c.userId = id
      /\ req.op = "getTasks" =>
           c.resp = Reply(200, TaskRepository_findByUserId(tasks, id, ABSENT))

Rejected(req) == Outcome(req, Undefined).resp = ErrorReply(401, "UNAUTHORIZED")

\* the value passes the format check and names a user of the store
Resolves(value) == UUID_REGEX(value) /\ value \in DOMAIN users

\* with value as the identifier, the request is served as value when value
\* resolves and is answered 401 when it does not
DecidedBy(req, value) ==
  IF Resolves(value) THEN ServedAs(req, value) ELSE Rejected(req)

\* C19 as stated: the header decides whenever it is present, the query
\* parameter only when the header is absent; a header value that fails the
\* format or existence check (the empty value included) is answered 401
\* whatever the query parameter holds.
C19_HeaderWhenPresent ==
  last = Idle =>
  \A req \in ChannelRequests :
    IF req.hdr.fmt = "undefined"
      THEN DecidedBy(req, req.qry)
      ELSE DecidedBy(req, req.hdr)

\* C19 as amended: the header decides whenever it holds a non-empty value,
\* the query parameter only when the header is absent or empty; a non-empty
\* header value that fails the format or existence check is answered 401
\* even if the query parameter names an existing user.
C19_HeaderWhenNonEmpty ==
  last = Idle =>
  \A req \in ChannelRequests :
    IF req.hdr.fmt \in {"undefined", "empty"}
      THEN DecidedBy(req, req.qry)
      ELSE DecidedBy(req, req.hdr)

\* a list was answered 200 while two users each own a task, so that the
\* lists of the two differ and the identifier a request is served with shows
C19_Witness ==
  /\ last = [op |-> "getTasks", code |-> 200]
  /\ Cardinality(DOMAIN users) = 2
  /\ \E t1, t2 \in DOMAIN tasks :
       tasks[t1].userId = Uuid(1) /\ tasks[t2].userId = Uuid(2)

\* errorHandler has answered an error that is neither an AppError nor a
\* schema-validation error
GenericHandled ==
  /\ last.op = "errorHandler"
  /\ last.error.kind \notin {"AppError", "validation"}

\* C20 as stated: every such error is answered 500 INTERNAL_ERROR, with the
\* message 'Internal server error' in production.
C20_Always500 ==
  GenericHandled =>
    /\ last.code = 500
    /\ last.err = "INTERNAL_ERROR"
    /\ config_isProd(last.nodeEnv) => last.message = "Internal server error"

\* C20 as amended: every such error is answered with its own statusCode
\* when it has one and with 500 when it has none, with code INTERNAL_ERROR,
\* and with the message 'Internal server error' in production.
C20_OwnStatusOr500 ==
  GenericHandled =>
    /\ last.code = (IF last.error.statusCode # 0 THEN last.error.statusCode
                                                 ELSE 500)
    /\ last.err = "INTERNAL_ERROR"
    /\ config_isProd(last.nodeEnv) => last.message = "Internal server error"

\* in production an error with a statusCode and a message of its own was
\* answered with that statusCode and the masked message
C20_Witness ==
  /\ GenericHandled
  /\ last.nodeEnv = "production"
  /\ last.error.statusCode = 503
  /\ last.error.message = "boom"
  /\ last.code = 503
  /\ last.message = "Internal server error"

\* C21: an error that is no AppError and has no validation details is
\* answered with its own statusCode, or 500 when it has none, and with code
\* INTERNAL_ERROR; outside production the message of the response is the
\* message of the error, or 'Internal server error' when the error has none.
C21_GenericBranch ==
  GenericHandled =>
    /\ last.error.statusCode # 0 => last.code = last.error.statusCode
    /\ last.error.statusCode = 0 => last.code = 500
    /\ last.err = "INTERNAL_ERROR"
    /\ ~config_isProd(last.nodeEnv) =>
         /\ last.error.message # "" => last.message = last.error.message
         /\ last.error.message = "" => last.message = "Internal server error"

\* in test mode an error of the store client, which has no statusCode, was
\* answered 500 with its own message
C21_Witness ==
  /\ GenericHandled
  /\ last.nodeEnv = "test"
  /\ last.error.kind = "store"
  /\ last.error.message = "boom"
  /\ last.code = 500
  /\ last.message = "boom"

\* C22: the response of errorHandler has a stack only in development mode:
\* none in production, in test mode or with NODE_ENV unset, for an AppError
\* as for a generic error, and none in any mode for a schema-validation
\* error.
C22_StackOnlyInDev ==
  last.op = "errorHandler" =>
    /\ last.stack # ABSENT => config_isDev(last.nodeEnv)
    /\ last.nodeEnv \in {"production", "test"} => last.stack = ABSENT
    /\ last.error.kind = "validation" => last.stack = ABSENT

\* in test mode an AppError that has a stack was answered without it
C22_Witness ==
  /\ last.op = "errorHandler"
  /\ last.nodeEnv = "test"
  /\ last.error.kind = "AppError"
  /\ last.error.stack # ABSENT
  /\ last.stack = ABSENT

C24_StatusInEnum ==
  /\ \A t \in DOMAIN tasks : tasks[t].status \in TaskStatus
  /\ last = Idle =>
       \A req \in CreateTaskRequests(Titles, Descriptions)
                    \cup UpdateTaskRequests(Titles, Descriptions) :
         req.status \notin TaskStatus \cup {ABSENT}
         => \A fresh \in FreshIds :
              LET c == Outcome(req, fresh)
              IN  c.resp = ErrorReply(400, "VALIDATION_ERROR") /\ SameStore(c)

\* a create was answered 400 while the caller exists and an id is free, and
\* the store holds a task in each of two statuses
C24_Witness ==
  /\ last = [op |-> "createTask", code |-> 400]
  /\ users # <<>>
  /\ TaskIds \ usedTasks # {}
  /\ \E t \in DOMAIN tasks : tasks[t].status = "DONE"

\* the request runs to its response against the store context c ends with
After(c, req) ==
  Run(Start(c.users, c.tasks, c.usedTasks, c.usedUsers, req, Undefined))

\* C25: archiveTask by the owner, repeated on the task it has just
\* archived, is answered 200 again and leaves status, title, description
\* and owner (the whole store) as the first archive left them.
C25_ArchiveIdempotent ==
  last = Idle =>
  \A req \in ArchiveTaskRequests :
    ByOwner(req)
    => \A c1 \in {Outcome(req, Undefined)} :
         \A c2 \in {After(c1, req)} :
           /\ c1.resp.code = 200
           /\ c2.resp.code = 200
           /\ c2.tasks = c1.tasks
           /\ c2.tasks[req.id].status = "ARCHIVED"
           /\ c2.resp.data = c1.resp.data
           /\ c2.users = c1.users

\* an archive was answered 200 and the archived task has the empty
\* description and the second title
C25_Witness ==
  /\ last = [op |-> "archiveTask", code |-> 200]
  /\ \E t \in DOMAIN tasks :
       /\ tasks[t].status = "ARCHIVED"
       /\ tasks[t].title = "b"
       /\ tasks[t].description = ""

\* the read requests of caller u: the unfiltered list and one task by id
ListOf(u) ==
  TaskReq("getTasks", <<u, Undefined>>, Undefined, ABSENT, ABSENT, ABSENT,
          Undefined)

GetOf(u, id) ==
  TaskReq("getTaskById", <<u, Undefined>>, id, ABSENT, ABSENT, ABSENT,
          Undefined)

\* C28: for every user c of the store and every task id t, getTaskById(t)
\* by c is answered 200 exactly when t is in the unfiltered list of c, and
\* then with the row the list has for t.
C28_GetAgreesWithList ==
  last = Idle =>
  \A u \in DOMAIN users :
    \A list \in {Outcome(ListOf(u), Undefined).resp} :
      /\ list.code = 200
      /\ \A id \in TaskIds \cup UserIds :
           LET got  == Outcome(GetOf(u, id), Undefined).resp
               rows == {list.data[i] : i \in 1 .. Len(list.data)}
           IN  /\ got.code = 200 <=> \E r \in rows : r.id = id
               /\ got.code = 200 => got.data[1] \in rows

\* a task was read by id with 200 while its reader owns an ARCHIVED task
\* and another user owns a task too
C28_Witness ==
  /\ last = [op |-> "getTaskById", code |-> 200]
  /\ \E t1, t2 \in DOMAIN tasks :
       /\ tasks[t1].userId # tasks[t2].userId
       /\ tasks[t1].status = "ARCHIVED"
       /\ tasks[t2].status = "ARCHIVED"

\* the archive request and the update request with body {status: ARCHIVED}
\* of one caller for one id
ArchiveOf(cred, id) ==
  TaskReq("archiveTask", cred, id, ABSENT, ABSENT, ABSENT, Undefined)

UpdateToArchivedOf(cred, id) ==
  TaskReq("updateTask", cred, id, ABSENT, ABSENT, "ARCHIVED", Undefined)

\* C29: from the same store and with the same credential and id, archiveTask
\* and updateTask with {status: ARCHIVED} end with the same response (the
\* same error, or 200 with the same row) and the same store.
C29_ArchiveIsUpdate ==
  last = Idle =>
  \A cred \in CredPairs : \A id \in PathIds :
    \A a \in {Outcome(ArchiveOf(cred, id), Undefined)} :
      \A u \in {Outcome(UpdateToArchivedOf(cred, id), Undefined)} :
        /\ a.resp = u.resp
        /\ a.users = u.users
        /\ a.tasks = u.tasks
        /\ a.usedTasks = u.usedTasks
        /\ a.usedUsers = u.usedUsers

\* an update was answered 200 and left a task ARCHIVED that has a
\* description, while a task of another status does not exist any more
C29_Witness ==
  /\ last = [op |-> "updateTask", code |-> 200]
  /\ \E t \in DOMAIN tasks :
       /\ tasks[t].status = "ARCHIVED"
       /\ tasks[t].description = "d"
       /\ tasks[t].title = "a"

\* the task requests user a can send with its own credential
RequestsOf(a) ==
  {req \in GetTasksRequests \cup CreateTaskRequests({"a"}, {})
             \cup GetTaskByIdRequests \cup UpdateTaskRequests({"a"}, {})
             \cup DeleteTaskRequests \cup ArchiveTaskRequests :
     req.hdr = a /\ req.qry = Undefined}

\* what user b can read: its lists (unfiltered and by status) and any task
\* by a well-formed id
ReadsOf(b) ==
  {TaskReq("getTasks", <<b, Undefined>>, Undefined, ABSENT, ABSENT, st,
           Undefined) : st \in TaskStatus \cup {ABSENT}}
  \cup {GetOf(b, id) : id \in TaskIds}

\* C27 as stated, one request of A at a time: whatever task request user A
\* sends, every getTasks and getTaskById of another user B is answered
\* after it as it was answered before it.
C27_NoInterference ==
  last = Idle =>
  \A a \in DOMAIN users : \A b \in DOMAIN users \ {a} :
    \A req \in RequestsOf(a) : \A fresh \in FreshIds :
      \A c \in {Outcome(req, fresh)} :
        \A read \in ReadsOf(b) :
          After(c, read).resp = Outcome(read, Undefined).resp

\* C27 as amended: the lists of B and the tasks B can read by id are the
\* same before and after any task request of A; getTaskById of B on an id
\* that is no task of B is answered with an error before and after, 403 or
\* 404 according to whether A has a task of that id.
C27_NoInterferenceOnOwnTasks ==
  last = Idle =>
  \A a \in DOMAIN users : \A b \in DOMAIN users \ {a} :
    \A req \in RequestsOf(a) : \A fresh \in FreshIds :
      \A c \in {Outcome(req, fresh)} :
        \A read \in ReadsOf(b) :
          \A before \in {Outcome(read, Undefined).resp} :
            \A after \in {After(c, read).resp} :
              IF read.op = "getTasks" \/ before.code = 200 \/ after.code = 200
                THEN after = before
                ELSE /\ before.code \in {403, 404}
                     /\ after.code \in {403, 404}
                     /\ after.code = 403 <=> read.id \in DOMAIN c.tasks
                     /\ before.data = <<>> /\ after.data = <<>>

\* a delete was answered 204 while two users exist and the user who still
\* owns a task is not the one whose task is gone
C27_Witness ==
  /\ last = [op |-> "deleteTask", code |-> 204]
  /\ Cardinality(DOMAIN users) = 2
  /\ Cardinality(DOMAIN tasks) = 1
  /\ Cardinality(usedTasks) = 2

\* C26: the write of an updateTask, archiveTask or deleteTask request hits a
\* task that, at the moment of the write, exists and is owned by the caller
\* of the request, as it was when the request checked it, whatever other
\* requests did in between.
C26_WriteHitsOwnTask ==
  [][\A s \in DOMAIN reqs :
       (/\ Answered(s)
        /\ reqs[s].req.op \in MutatingOps
        /\ reqs[s].pc = "write"
        /\ reqs'[s].resp.code \in {200, 204})
       => /\ reqs[s].req.id \in DOMAIN tasks
          /\ tasks[reqs[s].req.id].userId = reqs[s].userId
          /\ tasks[reqs[s].req.id].userId = reqs[s].task[1].userId
          /\ \A t \in DOMAIN tasks \ {reqs[s].req.id} :
               t \in DOMAIN tasks' /\ tasks'[t] = tasks[t]]_vars

\* an archive and a delete of one task both passed their checks before
\* either wrote: the delete read the task before the archive changed it and
\* removed it after
C26_Witness ==
  \E s1 \in InFlight("archiveTask") : \E s2 \in InFlight("deleteTask") :
    /\ reqs[s1].req.id = reqs[s2].req.id
    /\ reqs[s1].resp.code = 200
    /\ reqs[s2].resp.code = 204
    /\ reqs[s2].task[1].status # "ARCHIVED"
    /\ reqs[s1].resp.data[1].status = "ARCHIVED"
    /\ reqs[s1].req.id \notin DOMAIN tasks

\* C30: the userId of every stored task is the id of a user of the store,
\* also while requests run concurrently and user rows are deleted at the
\* store between the steps of a request.
C30_OwnerExists ==
  \A t \in DOMAIN tasks : tasks[t].userId \in DOMAIN users

\* a createTask request passed authMiddleware, its user was deleted before
\* the insert, and the request was answered 500; another user is in the
\* store
C30_Witness ==
  /\ \E s \in InFlight("createTask") :
       /\ reqs[s].resp = ErrorReply(500, "INTERNAL_ERROR")
       /\ reqs[s].userId \notin DOMAIN users
  /\ users # <<>>

====
